---- MODULE Spec2Model ----
(***************************************************************************)
(* Referral network engine: the graph store (ReferralNetwork), the reach   *)
(* analytics (NetworkAnalysis) and the influencer metrics                  *)
(* (InfluencerAnalysis) of the JavaScript engine, its growth simulation    *)
(* (NetworkGrowthSimulation) and bonus search (BonusOptimization), and the *)
(* Java ReferralNetwork with the threads that call it.                     *)
(*                                                                         *)
(* Node identifiers are the integers 1..MaxNode, standing for non-empty    *)
(* string identifiers in ascending lexicographic order ("a" < "b" < ...).  *)
(* The identifier 0 stands for the empty string, which the engine treats   *)
(* as a missing identifier.                                                *)
(*                                                                         *)
(* A JavaScript Set that is iterated in insertion order and whose order    *)
(* decides a result (users) is a sequence without duplicates.  A Map is a  *)
(* function whose DOMAIN is its key set.  The per-referrer candidate Sets  *)
(* and the reach Sets are plain sets: their iteration order only decides   *)
(* the order in which a traversal visits nodes, never what it returns.     *)
(***************************************************************************)
EXTENDS Integers, Sequences, FiniteSets, TLC

\* Number of distinct non-empty identifiers the callers use.
MaxNode == 4

Nodes == 1..MaxNode

\* Identifiers a caller may pass: 0 is the empty string.
Ids == 0..MaxNode

VARIABLES
  users,          \* this.users: insertion-ordered Set of user ids
  referrals,      \* this.referrals: Map referrer -> Set of candidates
  referrers,      \* this.referrers: Map candidate -> referrer
  reachCache,     \* this.reachCache: Map user -> memoized reach Set
  distanceCache,  \* this.distanceCache: Map source -> Map node -> hops
  handle,         \* the Set object the last getDirectReferrals call handed out
  accepted,       \* the accepted referrals in call order, kept in the runs that replay them into a new engine
  last,           \* the last call made and what it returned or threw
  graph,          \* Java ReferralNetwork.graph: Map referrer -> Set of candidates
  referredCandidates, \* Java ReferralNetwork.referredCandidates: Map candidate -> referrer
  threads,        \* the call each thread is making on the Java ReferralNetwork
  lock            \* the mutex a deployment puts around addReferral: "unused", "free" or "held"

vars == <<users, referrals, referrers, reachCache, distanceCache, handle, accepted, last,
          graph, referredCandidates, threads, lock>>

java == <<graph, referredCandidates, threads, lock>>

store == <<users, referrals, referrers>>

caches == <<reachCache, distanceCache>>

----------------------------------------------------------------------------
(* Maps and insertion-ordered sets *)

EmptyMap == <<>>

Has(m, k) == k \in DOMAIN m

Put(m, k, v) == [x \in (DOMAIN m) \cup {k} |-> IF x = k THEN v ELSE m[x]]

Range(s) == {s[i] : i \in 1..Len(s)}

\* Set.prototype.add on an insertion-ordered Set.
SetAdd(s, x) == IF x \in Range(s) THEN s ELSE Append(s, x)

RECURSIVE SeqOf(_)
\* The members of a set as a sequence (ascending).
SeqOf(S) ==
  IF S = {} THEN <<>>
  ELSE LET m == CHOOSE x \in S : \A y \in S : x <= y
       IN <<m>> \o SeqOf(S \ {m})

\* No Set handed out yet.  kind "live" is the very Set object stored in
\* this.referrals under user; kind "fresh" is a new Set with members elems;
\* writes counts the writes the caller has made through returned Sets.
NoHandle == [kind |-> "none", user |-> 0, elems |-> {}, writes |-> 0]

NoCall == [op |-> "init", args |-> <<>>, ret |-> "none"]

----------------------------------------------------------------------------
(* ReferralNetwork: the graph store *)

\* addUser's effect on this.users.
UsersAfterAddUser(us, userId) == SetAdd(us, userId)

\* addUser that gives the user a new, empty Set of candidates every time.
ReferralsAfterAddUserAlways(rs, userId) == Put(rs, userId, {})

\* addUser's effect on this.referrals.
ReferralsAfterAddUser(rs, userId) ==
  IF Has(rs, userId) THEN rs ELSE Put(rs, userId, {})

RECURSIVE canReachLoop(_, _, _, _)
\* The while loop of canReach: an explicit-stack DFS over rs from the
\* nodes on the stack, looking for toUser among the candidates visited.
canReachLoop(rs, stack, visited, toUser) ==
  IF stack = <<>> THEN FALSE
  ELSE LET current == stack[Len(stack)]
           rest == SubSeq(stack, 1, Len(stack) - 1)
       IN IF current \in visited THEN canReachLoop(rs, rest, visited, toUser)
          ELSE IF Has(rs, current)
               THEN IF toUser \in rs[current] THEN TRUE
                    ELSE canReachLoop(rs, rest \o SeqOf(rs[current]),
                                      visited \cup {current}, toUser)
               ELSE canReachLoop(rs, rest, visited \cup {current}, toUser)

canReachBroken(rs, fromUser, toUser) ==
  fromUser = toUser \/ (Has(rs, fromUser) /\ toUser \in rs[fromUser])

canReach(rs, fromUser, toUser) ==
  IF fromUser = toUser THEN TRUE
  ELSE canReachLoop(rs, <<fromUser>>, {}, toUser)

wouldCreateCycle(rs, referrerId, candidateId) == canReach(rs, candidateId, referrerId)

\* What addReferral throws, or "ok"; the checks run in the order of the code,
\* the last two on the store as addUser left it.
addReferralOutcomeSwapped(referrerId, candidateId) ==
  IF referrerId = 0 \/ candidateId = 0 THEN "InvalidId"
  ELSE IF referrerId = candidateId THEN "SelfReferral"
  ELSE IF wouldCreateCycle(referrals, referrerId, candidateId) THEN "CycleDetected"
  ELSE IF Has(referrers, candidateId) THEN "DuplicateReferrer"
  ELSE "ok"

addReferralOutcome(referrerId, candidateId) ==
  IF referrerId = 0 \/ candidateId = 0 THEN "InvalidId"
  ELSE IF referrerId = candidateId THEN "SelfReferral"
  ELSE IF Has(referrers, candidateId) THEN "DuplicateReferrer"
  ELSE IF wouldCreateCycle(referrals, referrerId, candidateId) THEN "CycleDetected"
  ELSE "ok"

\* addUser(userId) on the store.
addUserStore(userId) ==
  IF userId = 0
  THEN /\ UNCHANGED store
       /\ last' = [op |-> "addUser", args |-> <<userId>>, ret |-> "InvalidId"]
  ELSE /\ users' = UsersAfterAddUser(users, userId)
       /\ referrals' = ReferralsAfterAddUser(referrals, userId)
       /\ UNCHANGED referrers
       /\ last' = [op |-> "addUser", args |-> <<userId>>, ret |-> "ok"]

\* addReferral(referrerId, candidateId) on the store.
addReferralStore(referrerId, candidateId) ==
  LET outcome == addReferralOutcome(referrerId, candidateId)
      us == UsersAfterAddUser(UsersAfterAddUser(users, referrerId), candidateId)
      rs == ReferralsAfterAddUser(ReferralsAfterAddUser(referrals, referrerId), candidateId)
  IN /\ last' = [op |-> "addReferral", args |-> <<referrerId, candidateId>>, ret |-> outcome]
     /\ IF outcome \in {"InvalidId", "SelfReferral"}
        THEN UNCHANGED store
        ELSE /\ users' = us
             /\ IF outcome = "ok"
                THEN /\ referrals' = Put(rs, referrerId, rs[referrerId] \cup {candidateId})
                     /\ referrers' = Put(referrers, candidateId, referrerId)
                ELSE /\ referrals' = rs
                     /\ UNCHANGED referrers

addUser(userId) ==
  /\ addUserStore(userId)
  /\ UNCHANGED <<caches, handle, accepted, java>>

addReferral(referrerId, candidateId) ==
  /\ addReferralStore(referrerId, candidateId)
  /\ UNCHANGED <<caches, handle, accepted, java>>

----------------------------------------------------------------------------
(* NetworkAnalysis: reach analytics that only read the store *)

RECURSIVE reachLoop(_, _, _)
\* The BFS loop of calculateReach: the set of nodes visited from the queue.
reachLoop(rs, queue, visited) ==
  IF queue = <<>> THEN visited
  ELSE LET current == Head(queue)
           fresh == IF Has(rs, current) THEN rs[current] \ visited ELSE {}
       IN reachLoop(rs, Tail(queue) \o SeqOf(fresh), visited \cup fresh)

calculateReachDirectOnly(us, rs, userId) ==
  IF userId \notin Range(us) THEN 0
  ELSE IF Has(rs, userId) THEN Cardinality(rs[userId]) ELSE 0

\* calculateReach(userId) on the store (us, rs).
calculateReach(us, rs, userId) ==
  IF userId \notin Range(us) THEN 0
  ELSE Cardinality(reachLoop(rs, <<userId>>, {userId})) - 1

RECURSIVE userReachPairs(_, _, _)
\* The {userId, reach} pairs of the users with reach > 0, in the iteration
\* order of this.users (from position i on).
userReachPairs(us, rs, i) ==
  IF i > Len(us) THEN <<>>
  ELSE LET reach == calculateReach(us, rs, us[i])
       IN (IF reach > 0 THEN <<[userId |-> us[i], reach |-> reach]>> ELSE <<>>)
            \o userReachPairs(us, rs, i + 1)

RECURSIVE insertByReach(_, _)
\* x placed behind every pair whose reach is not smaller: the comparator
\* (a, b) => b.reach - a.reach under a stable sort.
insertByReach(sorted, x) ==
  IF sorted = <<>> THEN <<x>>
  ELSE IF Head(sorted).reach >= x.reach
       THEN <<Head(sorted)>> \o insertByReach(Tail(sorted), x)
       ELSE <<x>> \o sorted

RECURSIVE sortByReach(_, _)
\* Array.prototype.sort with that comparator (stable since ES2019).
sortByReach(pairs, sorted) ==
  IF pairs = <<>> THEN sorted
  ELSE sortByReach(Tail(pairs), insertByReach(sorted, Head(pairs)))

\* Array.prototype.slice(0, end): a negative end counts from the end of the array.
slice(arr, end) ==
  LET stop == IF end < 0
              THEN (IF Len(arr) + end > 0 THEN Len(arr) + end ELSE 0)
              ELSE (IF end < Len(arr) THEN end ELSE Len(arr))
  IN SubSeq(arr, 1, stop)

\* getTopReferrersByReach(k) on the store (us, rs).
getTopReferrersByReach(us, rs, k) ==
  slice(sortByReach(userReachPairs(us, rs, 1), <<>>), k)

\* A call of calculateReach(userId).
CalculateReach(userId) ==
  /\ last' = [op |-> "calculateReach", args |-> <<userId>>,
              ret |-> calculateReach(users, referrals, userId)]
  /\ UNCHANGED <<store, caches, handle, accepted, java>>

\* A call of getTopReferrersByReach(k).
GetTopReferrersByReach(k) ==
  /\ last' = [op |-> "getTopReferrersByReach", args |-> <<k>>,
              ret |-> getTopReferrersByReach(users, referrals, k)]
  /\ UNCHANGED <<store, caches, handle, accepted, java>>

\* getDirectReferrals(userId): this.referrals.get(userId) || new Set().  A Set
\* object is truthy even when empty, so every user with an entry gets the
\* stored Set itself.
GetDirectReferrals(userId) ==
  /\ handle' = IF Has(referrals, userId)
               THEN [kind |-> "live", user |-> userId, elems |-> {}, writes |-> handle.writes]
               ELSE [kind |-> "fresh", user |-> 0, elems |-> {}, writes |-> handle.writes]
  /\ last' = [op |-> "getDirectReferrals", args |-> <<userId>>,
              ret |-> IF Has(referrals, userId) THEN referrals[userId] ELSE {}]
  /\ UNCHANGED <<store, caches, accepted, java>>

\* Writes the caller makes through returned Sets in one run.
MaxCallerWrites == 1

\* The caller calls add(x) on the Set it was handed.
CallerAdd(x) ==
  /\ handle.kind # "none"
  /\ handle.writes < MaxCallerWrites
  /\ IF handle.kind = "live"
     THEN /\ referrals' = Put(referrals, handle.user, referrals[handle.user] \cup {x})
          /\ handle' = [handle EXCEPT !.writes = @ + 1]
     ELSE /\ handle' = [handle EXCEPT !.elems = @ \cup {x}, !.writes = @ + 1]
          /\ UNCHANGED referrals
  /\ last' = [op |-> "returned.add", args |-> <<x>>, ret |-> "ok"]
  /\ UNCHANGED <<users, referrers, caches, accepted, java>>

\* The caller calls delete(x) on the Set it was handed.
CallerDelete(x) ==
  /\ handle.kind # "none"
  /\ handle.writes < MaxCallerWrites
  /\ IF handle.kind = "live"
     THEN /\ referrals' = Put(referrals, handle.user, referrals[handle.user] \ {x})
          /\ handle' = [handle EXCEPT !.writes = @ + 1]
     ELSE /\ handle' = [handle EXCEPT !.elems = @ \ {x}, !.writes = @ + 1]
          /\ UNCHANGED referrals
  /\ last' = [op |-> "returned.delete", args |-> <<x>>, ret |-> "ok"]
  /\ UNCHANGED <<users, referrers, caches, accepted, java>>

\* The values of k the callers pass: negative, zero, and up to more than the
\* number of users with reach > 0 (which is below MaxNode).
Ks == (0 - MaxNode)..MaxNode

----------------------------------------------------------------------------
(* InfluencerAnalysis: reach sets behind reachCache, greedy unique reach *)

\* The Set getReachSet(userId) returns, given the cache rc and the store.
getReachSetValue(rc, us, rs, userId) ==
  IF Has(rc, userId) THEN rc[userId]
  ELSE IF userId \notin Range(us) THEN {}
  ELSE reachLoop(rs, <<userId>>, {userId}) \ {userId}

\* this.reachCache after getReachSet(userId): only a miss on a known user stores.
getReachSetCache(rc, us, rs, userId) ==
  IF Has(rc, userId) \/ userId \notin Range(us) THEN rc
  ELSE Put(rc, userId, getReachSetValue(rc, us, rs, userId))

RECURSIVE cacheAfterAllUsers(_, _, _, _)
\* this.reachCache after the loop that calls getReachSet for every user.
cacheAfterAllUsers(rc, us, rs, i) ==
  IF i > Len(us) THEN rc
  ELSE cacheAfterAllUsers(getReachSetCache(rc, us, rs, us[i]), us, rs, i + 1)

RECURSIVE activeReferrersFrom(_, _, _)
\* activeReferrers: the users whose reach Set (as getReachSet returned it) is
\* not empty, in the iteration order of this.users.
activeReferrersFrom(rc, us, i) ==
  IF i > Len(us) THEN <<>>
  ELSE (IF rc[us[i]] # {} THEN <<us[i]>> ELSE <<>>) \o activeReferrersFrom(rc, us, i + 1)

RECURSIVE bestReferrerScan(_, _, _, _, _)
\* The inner for loop: the first referrer of active (from position j on) whose
\* uncovered reach is strictly larger than that of the best found before it.
bestReferrerScan(rc, active, covered, j, best) ==
  IF j > Len(active) THEN best
  ELSE LET newUsers == rc[active[j]] \ covered
       IN IF Cardinality(newUsers) > best.coverage
          THEN bestReferrerScan(rc, active, covered, j + 1,
                 [referrer |-> active[j], coverage |-> Cardinality(newUsers), newUsers |-> newUsers])
          ELSE bestReferrerScan(rc, active, covered, j + 1, best)

\* Array.prototype.splice(indexOf(x), 1).
removeFirst(arr, x) ==
  LET i == CHOOSE j \in 1..Len(arr) : arr[j] = x /\ \A h \in 1..(j - 1) : arr[h] # x
  IN SubSeq(arr, 1, i - 1) \o SubSeq(arr, i + 1, Len(arr))

RECURSIVE greedySelection(_, _, _, _, _, _)
\* The greedy selection loop of calculateUniqueReachExpansion.
greedySelection(rc, active, covered, selected, i, maxReferrers) ==
  IF ~(i < maxReferrers /\ Len(active) > 0)
  THEN [selectedReferrers |-> selected, covered |-> covered]
  ELSE LET best == bestReferrerScan(rc, active, covered, 1,
                     [referrer |-> 0, coverage |-> 0, newUsers |-> {}])
       IN IF best.coverage = 0
          THEN [selectedReferrers |-> selected, covered |-> covered]
          ELSE greedySelection(rc, removeFirst(active, best.referrer),
                 covered \cup best.newUsers,
                 Append(selected, [userId |-> best.referrer,
                                   uniqueContribution |-> best.coverage,
                                   totalReach |-> Cardinality(rc[best.referrer]),
                                   newUsersCovered |-> best.newUsers]),
                 i + 1, maxReferrers)

\* calculateUniqueReachExpansion that selects for as long as a referrer adds
\* coverage, whatever maxReferrers is.
uniqueReachExpansionIgnoringBudget(rc, us, maxReferrers) ==
  LET g == greedySelection(rc, activeReferrersFrom(rc, us, 1), {}, <<>>, 0, Len(us))
  IN [selectedReferrers |-> g.selectedReferrers,
      totalUniqueCoverage |-> Cardinality(g.covered),
      efficiency |-> IF Len(g.selectedReferrers) > 0
                     THEN <<Cardinality(g.covered), Len(g.selectedReferrers)>>
                     ELSE <<0, 1>>]

\* What calculateUniqueReachExpansion(maxReferrers) returns when the reach
\* sets it reads are those of the cache rc (already filled for every user).
\* efficiency is the fraction <<numerator, denominator>>.
uniqueReachExpansion(rc, us, maxReferrers) ==
  LET g == greedySelection(rc, activeReferrersFrom(rc, us, 1), {}, <<>>, 0, maxReferrers)
  IN [selectedReferrers |-> g.selectedReferrers,
      totalUniqueCoverage |-> Cardinality(g.covered),
      efficiency |-> IF Len(g.selectedReferrers) > 0
                     THEN <<Cardinality(g.covered), Len(g.selectedReferrers)>>
                     ELSE <<0, 1>>]

RECURSIVE usersAtDepthLoop(_, _, _, _, _)
\* The for loop over the levels in getUsersAtDepth.
usersAtDepthLoop(rs, currentLevel, visited, level, depth) ==
  IF ~(level < depth) THEN currentLevel
  ELSE LET nextLevel == UNION {(IF Has(rs, userId) THEN rs[userId] ELSE {}) : userId \in currentLevel}
                          \ visited
       IN usersAtDepthLoop(rs, nextLevel, visited \cup nextLevel, level + 1, depth)

\* getUsersAtDepth that returns everything reached down to the level depth.
getUsersAtDepthCumulative(us, rs, rootUserId, depth) ==
  IF rootUserId \notin Range(us) \/ depth < 1 THEN {}
  ELSE UNION {usersAtDepthLoop(rs, {rootUserId}, {rootUserId}, 0, d) : d \in 1..depth}

\* getUsersAtDepth(rootUserId, depth).
getUsersAtDepth(us, rs, rootUserId, depth) ==
  IF rootUserId \notin Range(us) \/ depth < 1 THEN {}
  ELSE usersAtDepthLoop(rs, {rootUserId}, {rootUserId}, 0, depth)

\* A call of getUsersAtDepth(rootUserId, depth).
GetUsersAtDepth(rootUserId, depth) ==
  /\ last' = [op |-> "getUsersAtDepth", args |-> <<rootUserId, depth>>,
              ret |-> getUsersAtDepth(users, referrals, rootUserId, depth)]
  /\ UNCHANGED <<store, caches, handle, accepted, java>>

\* A call of getReachSet(userId).
GetReachSet(userId) ==
  /\ last' = [op |-> "getReachSet", args |-> <<userId>>,
              ret |-> getReachSetValue(reachCache, users, referrals, userId)]
  /\ reachCache' = getReachSetCache(reachCache, users, referrals, userId)
  /\ UNCHANGED <<store, distanceCache, handle, accepted, java>>

\* A call of calculateUniqueReachExpansion(maxReferrers).
CalculateUniqueReachExpansion(maxReferrers) ==
  LET rc == cacheAfterAllUsers(reachCache, users, referrals, 1)
  IN /\ last' = [op |-> "calculateUniqueReachExpansion", args |-> <<maxReferrers>>,
                 ret |-> uniqueReachExpansion(rc, users, maxReferrers)]
     /\ reachCache' = rc
     /\ UNCHANGED <<store, distanceCache, handle, accepted, java>>

\* The selection budgets the callers pass.
Budgets == (0 - 1)..MaxNode

----------------------------------------------------------------------------
(* InfluencerAnalysis: flow centrality over the all-pairs distance matrix *)

RECURSIVE bfsDistances(_, _, _, _)
\* The BFS loop of computeAllPairsDistances for one source: the Map
\* node -> hop distance of the nodes taken from the queue.
bfsDistances(rs, queue, visited, sourceDistances) ==
  IF queue = <<>> THEN sourceDistances
  ELSE LET current == Head(queue).node
           distance == Head(queue).distance
           fresh == SeqOf((IF Has(rs, current) THEN rs[current] ELSE {}) \ visited)
       IN bfsDistances(rs,
            Tail(queue) \o [i \in 1..Len(fresh) |-> [node |-> fresh[i], distance |-> distance + 1]],
            visited \cup Range(fresh),
            Put(sourceDistances, current, distance))

\* The matrix built by BFS from every user.
allPairsDistances(us, rs) ==
  [source \in Range(us) |->
     bfsDistances(rs, <<[node |-> source, distance |-> 0]>>, {source}, EmptyMap)]

\* computeAllPairsDistances(): a non-empty this.distanceCache is returned as it is.
computeAllPairsDistances(dc, us, rs) ==
  IF Cardinality(DOMAIN dc) > 0 THEN dc ELSE allPairsDistances(us, rs)

\* distances.get(a)?.get(b) is defined.
hasDistance(distances, a, b) == Has(distances, a) /\ Has(distances[a], b)

\* The number of pairs (allUsers[i], allUsers[j]), i < j, with a distance from
\* the first to the second, on a shortest path of which broker lies.
centralityScore(us, distances, broker) ==
  Cardinality({p \in (1..Len(us)) \X (1..Len(us)) :
    /\ p[1] < p[2]
    /\ hasDistance(distances, us[p[1]], us[p[2]])
    /\ broker # us[p[1]]
    /\ broker # us[p[2]]
    /\ hasDistance(distances, us[p[1]], broker)
    /\ hasDistance(distances, broker, us[p[2]])
    /\ distances[us[p[1]]][broker] + distances[broker][us[p[2]]]
         = distances[us[p[1]]][us[p[2]]]})

RECURSIVE brokerEntries(_, _, _)
\* The {userId, centralityScore, normalizedScore} records with a score > 0,
\* in the iteration order of this.users; normalizedScore is a fraction.
brokerEntries(us, distances, i) ==
  IF i > Len(us) THEN <<>>
  ELSE LET score == centralityScore(us, distances, us[i])
       IN (IF score > 0
           THEN <<[userId |-> us[i], centralityScore |-> score,
                   normalizedScore |-> IF Len(us) > 2
                                       THEN <<score, (Len(us) - 1) * (Len(us) - 2)>>
                                       ELSE <<0, 1>>]>>
           ELSE <<>>) \o brokerEntries(us, distances, i + 1)

RECURSIVE insertByScore(_, _)
\* The comparator (a, b) => b.centralityScore - a.centralityScore, stable.
insertByScore(sorted, x) ==
  IF sorted = <<>> THEN <<x>>
  ELSE IF Head(sorted).centralityScore >= x.centralityScore
       THEN <<Head(sorted)>> \o insertByScore(Tail(sorted), x)
       ELSE <<x>> \o sorted

RECURSIVE sortByScore(_, _)
sortByScore(entries, sorted) ==
  IF entries = <<>> THEN sorted
  ELSE sortByScore(Tail(entries), insertByScore(sorted, Head(entries)))

\* What calculateFlowCentrality(topK) returns over the matrix distances.
flowCentrality(us, distances, topK) ==
  slice(sortByScore(brokerEntries(us, distances, 1), <<>>), topK)

\* A call of calculateFlowCentrality(topK).
CalculateFlowCentrality(topK) ==
  LET distances == computeAllPairsDistances(distanceCache, users, referrals)
  IN /\ last' = [op |-> "calculateFlowCentrality", args |-> <<topK>>,
                 ret |-> flowCentrality(users, distances, topK)]
     /\ distanceCache' = distances
     /\ UNCHANGED <<store, reachCache, handle, accepted, java>>

\* addReferral(referrerId, candidateId) in a run whose accepted referrals are
\* recorded, to be replayed into a new engine.
addReferralRecorded(referrerId, candidateId) ==
  /\ addReferralStore(referrerId, candidateId)
  /\ accepted' = IF addReferralOutcome(referrerId, candidateId) = "ok"
                 THEN Append(accepted, <<referrerId, candidateId>>)
                 ELSE accepted
  /\ UNCHANGED <<caches, handle, java>>

----------------------------------------------------------------------------
\* JavaScript numbers in NetworkGrowthSimulation and BonusOptimization.
\* A number is a decimal floating-point value m * 10^e with a normalised
\* mantissa of SignificantDigits digits (an IEEE double carries about 16; the
\* operations round to nearest as a double does), the range of a double, and
\* the two special values Infinity and NaN.  Only values >= 0 take part in the
\* arithmetic of the simulation.

SignificantDigits == 4

MantissaMin == 1000

MantissaLimit == 10000

\* Number.MAX_VALUE is about 1.797 * 10^308 = MaxMantissa * 10^MaxExponent.
MaxMantissa == 1797

MaxExponent == 305

\* Below about 10^-324 a double is 0.
MinExponent == 0 - 327

PowersOfTen == <<1, 10, 100, 1000, 10000, 100000, 1000000, 10000000, 100000000, 1000000000>>

Pow10(k) == PowersOfTen[k + 1]

Zero == [kind |-> "finite", m |-> 0, e |-> 0]

Infinity == [kind |-> "inf", m |-> 0, e |-> 0]

NaN == [kind |-> "nan", m |-> 0, e |-> 0]

isNaN(a) == a.kind = "nan"

\* The number of decimal digits of the natural number n > 0.
DigitCount(n) ==
  IF n < 10 THEN 1 ELSE IF n < 100 THEN 2 ELSE IF n < 1000 THEN 3
  ELSE IF n < 10000 THEN 4 ELSE IF n < 100000 THEN 5 ELSE IF n < 1000000 THEN 6
  ELSE IF n < 10000000 THEN 7 ELSE IF n < 100000000 THEN 8
  ELSE IF n < 1000000000 THEN 9 ELSE 10

\* The number with mantissa m and exponent e: Infinity above Number.MAX_VALUE.
Finite(m, e) ==
  IF e > MaxExponent \/ (e = MaxExponent /\ m > MaxMantissa) THEN Infinity
  ELSE IF e < MinExponent THEN Zero
  ELSE [kind |-> "finite", m |-> m, e |-> e]

\* The number nearest to n * 10^e, for a natural number n.
Round(n, e) ==
  IF n = 0 THEN Zero
  ELSE LET d == DigitCount(n)
       IN IF d <= SignificantDigits
          THEN Finite(n * Pow10(SignificantDigits - d), e - (SignificantDigits - d))
          ELSE LET k == d - SignificantDigits
                   q == (n + (Pow10(k) \div 2)) \div Pow10(k)
               IN IF q = MantissaLimit THEN Finite(MantissaMin, e + k + 1)
                  ELSE Finite(q, e + k)

\* a < b; false when either is NaN.
Less(a, b) ==
  /\ ~isNaN(a) /\ ~isNaN(b)
  /\ a.kind = "finite"
  /\ \/ b.kind = "inf"
     \/ IF a.m = 0 THEN b.m > 0
        ELSE b.m > 0 /\ (a.e < b.e \/ (a.e = b.e /\ a.m < b.m))

\* a >= b; false when either is NaN.
AtLeast(a, b) == ~isNaN(a) /\ ~isNaN(b) /\ ~Less(a, b)

\* a * b.
Times(a, b) ==
  IF isNaN(a) \/ isNaN(b) THEN NaN
  ELSE IF a.kind = "inf" \/ b.kind = "inf"
       THEN (IF a = Zero \/ b = Zero THEN NaN ELSE Infinity)
       ELSE Round(a.m * b.m, a.e + b.e)

\* a + b.
Plus(a, b) ==
  IF isNaN(a) \/ isNaN(b) THEN NaN
  ELSE IF a.kind = "inf" \/ b.kind = "inf" THEN Infinity
  ELSE IF a.m = 0 THEN b
  ELSE IF b.m = 0 THEN a
  ELSE LET hi == IF a.e >= b.e THEN a ELSE b
           lo == IF a.e >= b.e THEN b ELSE a
           shift == hi.e - lo.e
       IN IF shift > SignificantDigits THEN hi
          ELSE Round(hi.m * Pow10(shift) + lo.m, lo.e)

\* a - b for b <= a (Infinity - Infinity is NaN).
Minus(a, b) ==
  IF isNaN(a) \/ isNaN(b) THEN NaN
  ELSE IF b.kind = "inf" THEN (IF a.kind = "inf" THEN NaN ELSE Zero)
  ELSE IF a.kind = "inf" THEN Infinity
  ELSE IF b.m = 0 THEN a
  ELSE IF Less(a, b) THEN Zero
  ELSE LET shift == a.e - b.e
       IN IF shift > SignificantDigits THEN a
          ELSE Round(a.m * Pow10(shift) - b.m, b.e)

\* a / n for an integer n in 1..10.
DividedBy(a, n) ==
  IF a.kind # "finite" THEN a
  ELSE Round((2 * a.m * Pow10(SignificantDigits) + n) \div (2 * n), a.e - SignificantDigits)

\* Math.min(a, b) and Math.max(a, b): NaN when either is NaN.
MathMin(a, b) == IF isNaN(a) \/ isNaN(b) THEN NaN ELSE IF Less(b, a) THEN b ELSE a

MathMax(a, b) == IF isNaN(a) \/ isNaN(b) THEN NaN ELSE IF Less(a, b) THEN b ELSE a

\* The number of the integer n >= 0.
FromInt(n) == Round(n, 0)

\* The probability of n thousandths.
Thousandths(n) == Round(n, 0 - 3)

----------------------------------------------------------------------------
\* NetworkGrowthSimulation.  Probabilities are passed in thousandths, day
\* counts and targets as integers; a thrown Error is the string of its message.

INITIAL_REFERRERS == 100

MAX_REFERRALS_PER_USER == 10

\* simulate refuses more days than this.
MaxSimulateDays == 10000

\* A thrown Error with its message.
Thrown(message) == [kind |-> "error", message |-> message]

ProbabilityError == Thrown("Probability must be between 0 and 1")

DaysError == Thrown("Days must be between 0 and 10000")

\* A returned array of numbers.
Array(results) == [kind |-> "array", results |-> results]

\* A returned count of days.
Days(n) == [kind |-> "days", days |-> n]

\* A day that counts every active referrer as a referral, whatever p is.
simulateDayCountingReferrers(p, s) ==
  [day |-> s.day + 1,
   activeReferrers |-> s.activeReferrers,
   cumulativeReferrals |-> Plus(s.cumulativeReferrals, s.activeReferrers),
   results |-> Append(s.results, Plus(s.cumulativeReferrals, s.activeReferrers))]

\* One pass of the for loop of simulate: a day.
simulateDay(p, s) ==
  LET expectedDailyReferrals == Times(s.activeReferrers, p)
      cumulativeReferrals == Plus(s.cumulativeReferrals, expectedDailyReferrals)
      referralsToday == expectedDailyReferrals
      referrersBecomingInactive ==
        MathMin(s.activeReferrers, DividedBy(referralsToday, MAX_REFERRALS_PER_USER))
      newActiveReferrers == referralsToday
  IN [day |-> s.day + 1,
      activeReferrers |->
        MathMax(Zero, Plus(Minus(s.activeReferrers, referrersBecomingInactive),
                           newActiveReferrers)),
      cumulativeReferrals |-> cumulativeReferrals,
      results |-> Append(s.results, cumulativeReferrals)]

RECURSIVE simulateLoop(_, _, _, _)
\* The for loop of simulate from the loop state s, for at most n passes: the
\* passes are made in two halves, one after the other.
simulateLoop(p, days, s, n) ==
  IF ~(s.day <= days) \/ n = 0 THEN s
  ELSE IF n = 1 THEN simulateDay(p, s)
  ELSE LET firstHalf == simulateLoop(p, days, s, n \div 2)
       IN simulateLoop(p, days, firstHalf, n - (n \div 2))

\* simulate that clamps its arguments into their ranges instead of throwing.
simulateClamping(p, days) ==
  LET pClamped == IF p < 0 THEN 0 ELSE IF p > 1000 THEN 1000 ELSE p
      daysClamped == IF days < 0 THEN 0
                     ELSE IF days > MaxSimulateDays THEN MaxSimulateDays ELSE days
  IN Array(simulateLoop(Thousandths(pClamped), daysClamped,
                        [day |-> 1,
                         activeReferrers |-> FromInt(INITIAL_REFERRERS),
                         cumulativeReferrals |-> Zero,
                         results |-> <<>>],
                        daysClamped).results)

\* simulate(p, days): the array of cumulative totals, or the Error thrown.
simulate(p, days) ==
  IF p < 0 \/ p > 1000 THEN ProbabilityError
  ELSE IF days < 0 \/ days > MaxSimulateDays THEN DaysError
  ELSE Array(simulateLoop(Thousandths(p), days,
                          [day |-> 1,
                           activeReferrers |-> FromInt(INITIAL_REFERRERS),
                           cumulativeReferrals |-> Zero,
                           results |-> <<>>],
                          days).results)

\* daysToTarget scans day by day below this target.
SmallTargetLimit == 1000

\* linearSearchDays gives up after this many days.
LinearSearchDayLimit == 20000

\* binarySearchDays starts this many days above its estimate.
BinarySearchMargin == 100

\* binarySearchDays gives up above this many days.
BinarySearchDayLimit == 200000

\* One pass of the while loop of linearSearchDays; s.returned is "no" until
\* the function has returned s.value.
linearSearchPass(p, targetTotal, s) ==
  IF ~Less(s.cumulativeReferrals, targetTotal)
  THEN [s EXCEPT !.returned = "yes", !.value = Days(s.day - 1)]
  ELSE LET expectedDailyReferrals == Times(s.activeReferrers, p)
           cumulativeReferrals == Plus(s.cumulativeReferrals, expectedDailyReferrals)
           referralsToday == expectedDailyReferrals
           referrersBecomingInactive ==
             MathMin(s.activeReferrers, DividedBy(referralsToday, MAX_REFERRALS_PER_USER))
           newActiveReferrers == referralsToday
           activeReferrers ==
             MathMax(Zero, Plus(Minus(s.activeReferrers, referrersBecomingInactive),
                                newActiveReferrers))
       IN IF AtLeast(cumulativeReferrals, targetTotal)
          THEN [s EXCEPT !.cumulativeReferrals = cumulativeReferrals,
                         !.returned = "yes", !.value = Days(s.day)]
          ELSE IF s.day + 1 > LinearSearchDayLimit
          THEN [day |-> s.day + 1, activeReferrers |-> activeReferrers,
                cumulativeReferrals |-> cumulativeReferrals,
                returned |-> "yes", value |-> Infinity]
          ELSE [day |-> s.day + 1, activeReferrers |-> activeReferrers,
                cumulativeReferrals |-> cumulativeReferrals,
                returned |-> "no", value |-> Infinity]

RECURSIVE linearSearchLoop(_, _, _, _)
\* The while loop of linearSearchDays from the loop state s, for at most n
\* passes, made in two halves, one after the other.
linearSearchLoop(p, targetTotal, s, n) ==
  IF s.returned = "yes" \/ n = 0 THEN s
  ELSE IF n = 1 THEN linearSearchPass(p, targetTotal, s)
  ELSE LET firstHalf == linearSearchLoop(p, targetTotal, s, n \div 2)
       IN linearSearchLoop(p, targetTotal, firstHalf, n - (n \div 2))

\* linearSearchDays(p, targetTotal); the loop returns within
\* LinearSearchDayLimit + 1 passes.
linearSearchDays(p, targetTotal) ==
  linearSearchLoop(Thousandths(p), FromInt(targetTotal),
                   [day |-> 1, activeReferrers |-> FromInt(INITIAL_REFERRERS),
                    cumulativeReferrals |-> Zero, returned |-> "no", value |-> Infinity],
                   LinearSearchDayLimit + 1).value

\* Math.ceil(a / b) for integers a >= 0 and b > 0.
CeilDiv(a, b) == (a + b - 1) \div b

RECURSIVE raiseHigh(_, _, _, _)
\* The first while loop of binarySearchDays: the day count high that the
\* search starts from, the Error a simulate call threw, or Infinity.
raiseHigh(p, targetTotal, high, highSimulation) ==
  IF highSimulation.kind = "error" THEN highSimulation
  ELSE IF Less(highSimulation.results[high], FromInt(targetTotal))
  THEN IF high * 2 > BinarySearchDayLimit THEN Infinity
       ELSE raiseHigh(p, targetTotal, high * 2, simulate(p, high * 2))
  ELSE Days(high)

RECURSIVE bisectDays(_, _, _, _)
\* The second while loop of binarySearchDays.
bisectDays(p, targetTotal, low, high) ==
  IF low < high
  THEN LET mid == (low + high) \div 2
           results == simulate(p, mid)
       IN IF results.kind = "error" THEN results
          ELSE IF Len(results.results) > 0
                  /\ AtLeast(results.results[mid], FromInt(targetTotal))
          THEN bisectDays(p, targetTotal, low, mid)
          ELSE bisectDays(p, targetTotal, mid + 1, high)
  ELSE Days(low)

\* binarySearchDays(p, targetTotal), for p > 0 in thousandths.
binarySearchDays(p, targetTotal) ==
  LET high == CeilDiv(targetTotal * 1000, INITIAL_REFERRERS * p) + BinarySearchMargin
      raised == raiseHigh(p, targetTotal, high, simulate(p, high))
  IN IF raised.kind = "days" THEN bisectDays(p, targetTotal, 1, raised.days)
     ELSE raised

\* daysToTarget(p, targetTotal): Days(n), Infinity, or the Error thrown.
daysToTarget(p, targetTotal) ==
  IF p <= 0 THEN Infinity
  ELSE IF targetTotal <= 0 THEN Days(0)
  ELSE IF targetTotal < SmallTargetLimit THEN linearSearchDays(p, targetTotal)
  ELSE binarySearchDays(p, targetTotal)

----------------------------------------------------------------------------
\* BonusOptimization.  A bonus is counted in 1/DollarUnits of a dollar: the
\* bounds found by doubling from $10 and the midpoints of the bisection down to
\* a width of eps = 0.001 are whole numbers of these units, as they are exact
\* in a double.  A returned bonus is in dollars.

DollarUnits == 8192

\* The default eps = 1e-3 of minBonusForTarget, in units, rounded down: a
\* whole number of units is above eps exactly when it is above EpsUnits.
EpsUnits == DollarUnits \div 1000

\* findMaxSearchBonus starts at this bonus, in dollars.
FirstTestBonus == 10

\* findMaxSearchBonus makes at most this many passes.
MaxIterations == 20

\* findMaxSearchBonus gives up above this bonus, in dollars.
MaxTestBonus == 100000

\* A probability from here on counts as the largest the function gives, in
\* thousandths.
SaturatedProbability == 990

\* The increment a returned bonus is rounded up to, in dollars.
BonusIncrement == 10

Null == [kind |-> "null"]

\* A returned bonus, in dollars.
Bonus(dollars) == [kind |-> "bonus", dollars |-> dollars]

\* adoptionProb(bonus), in thousandths, for the bonus in units.  The caller
\* passes the function f: a step from f.low to f.high at f.from dollars, or
\* the stairs Math.floor(Math.min(bonus / f.per, f.cap / 1000) * 1000) / 1000.
adoptionProb(f, bonus) ==
  IF f.kind = "step"
  THEN IF bonus >= f.from * DollarUnits THEN f.high ELSE f.low
  ELSE IF bonus >= ((f.per * f.cap) \div 1000) * DollarUnits THEN f.cap
       ELSE bonus \div ((f.per * DollarUnits) \div 1000)

\* results[results.length - 1] || 0 for the array a simulate call returned.
finalHires(results) ==
  IF Len(results) = 0 THEN Zero
  ELSE IF isNaN(results[Len(results)]) THEN Zero
  ELSE results[Len(results)]

RECURSIVE findMaxSearchBonusLoop(_, _, _, _, _)
\* The for loop of findMaxSearchBonus from pass i with testBonus, in units:
\* the bound in units as Bonus, Null, or the Error a simulate call threw.
findMaxSearchBonusLoop(f, targetHires, days, testBonus, i) ==
  IF ~(i < MaxIterations) THEN Null
  ELSE LET probability == adoptionProb(f, testBonus)
           results == simulate(probability, days)
       IN IF results.kind = "error" THEN results
          ELSE IF probability >= SaturatedProbability
          THEN IF AtLeast(finalHires(results.results), FromInt(targetHires))
               THEN Bonus(testBonus)
               ELSE Null
          ELSE IF AtLeast(finalHires(results.results), FromInt(targetHires))
          THEN Bonus(testBonus)
          ELSE IF testBonus * 2 > MaxTestBonus * DollarUnits THEN Null
          ELSE findMaxSearchBonusLoop(f, targetHires, days, testBonus * 2, i + 1)

\* findMaxSearchBonus that makes its first trial at twice the first bonus.
findMaxSearchBonusFromSecondTrial(f, targetHires, days) ==
  findMaxSearchBonusLoop(f, targetHires, days, 2 * FirstTestBonus * DollarUnits, 1)

\* findMaxSearchBonus(adoptionProb, targetHires, days).
findMaxSearchBonus(f, targetHires, days) ==
  findMaxSearchBonusLoop(f, targetHires, days, FirstTestBonus * DollarUnits, 0)

RECURSIVE bisectBonus(_, _, _, _, _, _)
\* The while loop of minBonusForTarget: bestBonus when it ends, in units as
\* Bonus, Null when no midpoint met the target, or the Error thrown.
bisectBonus(f, targetHires, days, low, high, bestBonus) ==
  IF high - low > EpsUnits
  THEN LET mid == (low + high) \div 2
           probability == adoptionProb(f, mid)
           results == simulate(probability, days)
       IN IF results.kind = "error" THEN results
          ELSE IF AtLeast(finalHires(results.results), FromInt(targetHires))
          THEN bisectBonus(f, targetHires, days, low, mid, Bonus(mid))
          ELSE bisectBonus(f, targetHires, days, mid, high, bestBonus)
  ELSE bestBonus

\* The variables of the while loop of minBonusForTarget between two passes.
Bisecting(low, high, bestBonus) ==
  [kind |-> "bisecting", low |-> low, high |-> high, bestBonus |-> bestBonus]

\* One pass of the while loop of minBonusForTarget from the loop variables b.
bisectPass(f, targetHires, days, b) ==
  LET mid == (b.low + b.high) \div 2
      probability == adoptionProb(f, mid)
      results == simulate(probability, days)
  IN IF results.kind = "error" THEN results
     ELSE IF AtLeast(finalHires(results.results), FromInt(targetHires))
     THEN Bisecting(b.low, mid, Bonus(mid))
     ELSE Bisecting(mid, b.high, b.bestBonus)

\* Math.floor(bestBonus / 10) * 10, in dollars, for bestBonus in units.
roundDownToIncrement(bestBonus) ==
  (bestBonus \div (BonusIncrement * DollarUnits)) * BonusIncrement

\* Math.ceil(bestBonus / 10) * 10, in dollars, for bestBonus in units.
roundUpToIncrement(bestBonus) ==
  CeilDiv(bestBonus, BonusIncrement * DollarUnits) * BonusIncrement

\* minBonusForTarget(days, targetHires, adoptionProb) with the default eps.
minBonusForTarget(days, targetHires, f) ==
  IF days <= 0 \/ targetHires <= 0 THEN Null
  ELSE LET maxBonus == findMaxSearchBonus(f, targetHires, days)
       IN IF maxBonus.kind # "bonus" THEN maxBonus
          ELSE LET bestBonus == bisectBonus(f, targetHires, days, 0, maxBonus.dollars, Null)
               IN IF bestBonus.kind # "bonus" THEN bestBonus
                  ELSE Bonus(roundUpToIncrement(bestBonus.dollars))

----------------------------------------------------------------------------
\* The Java ReferralNetwork.  Each operation on one of its two HashMaps is a
\* single step; a thread can be moved out between the checks of addReferral
\* and its two insertions, which nothing in the class prevents.

\* Number of threads that call the network.
MaxThreads == 2

Threads == 1..MaxThreads

\* Number of distinct identifiers the threads use.
MaxJavaNode == 3

JavaIds == 1..MaxJavaNode

\* A thread that is in no call and has made none.
Idle == [pc |-> "idle", op |-> "none", referrer |-> 0, candidate |-> 0,
         ret |-> "none", view |-> {}]

\* A thread may enter addReferral unless another thread holds the mutex.
mayEnter(l) == l # "held"

\* The mutex after a thread has entered addReferral, and after it has returned.
entered(l) == IF l = "free" THEN "held" ELSE l

returned(l) == IF l = "held" THEN "free" ELSE l

\* graph.getOrDefault(user, Collections.emptySet()), as getDirectReferrals reads it.
getDirectReferrals(g, user) == IF Has(g, user) THEN g[user] ELSE {}

RECURSIVE pathExistsLoop(_, _, _, _)
\* The while loop of pathExists.
pathExistsLoop(g, queue, visited, endNode) ==
  IF queue = <<>> THEN FALSE
  ELSE LET currentUser == Head(queue)
           unvisited == getDirectReferrals(g, currentUser) \ visited
       IN IF currentUser = endNode THEN TRUE
          ELSE pathExistsLoop(g, Tail(queue) \o SeqOf(unvisited),
                              visited \cup unvisited, endNode)

\* pathExists that only looks at the direct referrals of startNode.
pathExistsDirectOnly(g, startNode, endNode) ==
  endNode \in getDirectReferrals(g, startNode)

\* pathExists(startNode, endNode) on the adjacency map g.
pathExists(g, startNode, endNode) ==
  IF ~Has(g, startNode) THEN FALSE
  ELSE pathExistsLoop(g, <<startNode>>, {startNode}, endNode)

\* addReferral without its cycle check.
constraintsPassWithoutPathCheck(g, rc, referrer, candidate) ==
  /\ referrer # candidate
  /\ ~Has(rc, candidate)

\* The three constraints of addReferral, on the maps as they are now.
constraintsPass(g, rc, referrer, candidate) ==
  /\ referrer # candidate
  /\ ~Has(rc, candidate)
  /\ ~pathExists(g, candidate, referrer)

\* graph.computeIfAbsent(referrer, k -> new HashSet<>()).add(candidate).
graphAfterAdd(g, referrer, candidate) ==
  Put(g, referrer, getDirectReferrals(g, referrer) \cup {candidate})

\* A whole addReferral(referrer, candidate) call by thread t, with no other
\* thread in a call.
javaAddReferral(t, referrer, candidate) ==
  LET pass == constraintsPass(graph, referredCandidates, referrer, candidate)
  IN /\ graph' = IF pass THEN graphAfterAdd(graph, referrer, candidate) ELSE graph
     /\ referredCandidates' = IF pass THEN Put(referredCandidates, candidate, referrer)
                              ELSE referredCandidates
     /\ threads' = [threads EXCEPT ![t] =
                      [pc |-> "idle", op |-> "addReferral", referrer |-> referrer,
                       candidate |-> candidate,
                       ret |-> IF pass THEN "true" ELSE "false", view |-> {}]]
     /\ lock' = lock

\* Thread t enters addReferral(referrer, candidate).
JavaCallAddReferral(t, referrer, candidate) ==
  /\ threads[t].pc = "idle"
  /\ mayEnter(lock)
  /\ lock' = entered(lock)
  /\ threads' = [threads EXCEPT ![t] =
                   [pc |-> "checks", op |-> "addReferral", referrer |-> referrer,
                    candidate |-> candidate, ret |-> "none", view |-> {}]]
  /\ UNCHANGED <<graph, referredCandidates, store, caches, handle, accepted, last>>

\* Thread t evaluates the three constraints: it returns false, or goes on to
\* the insertions.
JavaChecks(t) ==
  /\ threads[t].pc = "checks"
  /\ threads' = [threads EXCEPT ![t] =
                   IF constraintsPass(graph, referredCandidates, @.referrer, @.candidate)
                   THEN [@ EXCEPT !.pc = "graphAdd"]
                   ELSE [@ EXCEPT !.pc = "idle", !.ret = "false"]]
  /\ lock' = IF threads'[t].pc = "idle" THEN returned(lock) ELSE lock
  /\ UNCHANGED <<graph, referredCandidates, store, caches, handle, accepted, last>>

\* Thread t adds the candidate to the referrer's set in graph.
JavaGraphAdd(t) ==
  /\ threads[t].pc = "graphAdd"
  /\ graph' = graphAfterAdd(graph, threads[t].referrer, threads[t].candidate)
  /\ threads' = [threads EXCEPT ![t].pc = "candidatePut"]
  /\ UNCHANGED <<lock, referredCandidates, store, caches, handle, accepted, last>>

\* Thread t records the candidate's referrer and returns true.
JavaCandidatePut(t) ==
  /\ threads[t].pc = "candidatePut"
  /\ referredCandidates' = Put(referredCandidates, threads[t].candidate, threads[t].referrer)
  /\ threads' = [threads EXCEPT ![t].pc = "idle", ![t].ret = "true"]
  /\ lock' = returned(lock)
  /\ UNCHANGED <<graph, store, caches, handle, accepted, last>>

\* Thread t calls getDirectReferrals(user) and keeps what the view showed.
JavaGetDirectReferrals(t, user) ==
  /\ threads[t].pc = "idle"
  /\ threads' = [threads EXCEPT ![t] =
                   [pc |-> "idle", op |-> "getDirectReferrals", referrer |-> user,
                    candidate |-> 0, ret |-> "none",
                    view |-> getDirectReferrals(graph, user)]]
  /\ UNCHANGED <<lock, graph, referredCandidates, store, caches, handle, accepted, last>>

\* The same referral given to the JavaScript engine and to the Java network,
\* each by a single caller.
AddEdgeBoth(referrer, candidate) ==
  /\ addReferralStore(referrer, candidate)
  /\ javaAddReferral(1, referrer, candidate)
  /\ UNCHANGED <<caches, handle, accepted>>

----------------------------------------------------------------------------

Init ==
  /\ users = <<>>
  /\ referrals = EmptyMap
  /\ referrers = EmptyMap
  /\ reachCache = EmptyMap
  /\ distanceCache = EmptyMap
  /\ handle = NoHandle
  /\ accepted = <<>>
  /\ last = NoCall
  /\ graph = EmptyMap
  /\ referredCandidates = EmptyMap
  /\ threads = [t \in Threads |-> Idle]
  /\ lock = "unused"

\* The graph store driven through its two mutating operations, and the
\* analytics that only read it.
Next ==
  \/ \E userId \in Ids : addUser(userId)
  \/ \E referrerId \in Ids, candidateId \in Ids : addReferral(referrerId, candidateId)
  \/ \E userId \in Ids : CalculateReach(userId)
  \/ \E k \in Ks : GetTopReferrersByReach(k)

Spec == Init /\ [][Next]_vars

\* Identifiers used by the caller that keeps the Sets getDirectReferrals returns.
MaxCallerNode == 3

CallerIds == 0..MaxCallerNode

\* The store with a caller that writes to the Sets getDirectReferrals returned.
NextCaller ==
  \/ \E userId \in CallerIds : addUser(userId)
  \/ \E referrerId \in CallerIds, candidateId \in CallerIds : addReferral(referrerId, candidateId)
  \/ \E userId \in CallerIds : GetDirectReferrals(userId)
  \/ \E x \in CallerIds \ {0} : CallerAdd(x)
  \/ \E x \in CallerIds \ {0} : CallerDelete(x)

SpecCaller == Init /\ [][NextCaller]_vars

\* Identifiers used in the runs that exercise the memoizing analytics.
MaxCacheNode == 3

CacheIds == 0..MaxCacheNode

\* The store with the analytics that read reach sets through reachCache.
NextInfluence ==
  \/ \E userId \in CacheIds : addUser(userId)
  \/ \E referrerId \in CacheIds, candidateId \in CacheIds : addReferral(referrerId, candidateId)
  \/ \E userId \in CacheIds : GetReachSet(userId)
  \/ \E maxReferrers \in Budgets : CalculateUniqueReachExpansion(maxReferrers)

SpecInfluence == Init /\ [][NextInfluence]_vars

\* Referrals among all the identifiers, interleaved with unique reach
\* expansion queries.
NextExpansion ==
  \/ \E referrerId \in Nodes, candidateId \in Nodes : addReferral(referrerId, candidateId)
  \/ \E maxReferrers \in Budgets : CalculateUniqueReachExpansion(maxReferrers)

SpecExpansion == Init /\ [][NextExpansion]_vars

\* The depths the callers pass: one level more than any chain can have.
Depths == (0 - 1)..MaxNode

\* The store with the depth query.
NextDepth ==
  \/ \E userId \in Ids : addUser(userId)
  \/ \E referrerId \in Ids, candidateId \in Ids : addReferral(referrerId, candidateId)
  \/ \E rootUserId \in Ids, depth \in Depths : GetUsersAtDepth(rootUserId, depth)

SpecDepth == Init /\ [][NextDepth]_vars

\* The values of topK the callers pass.
TopKs == (0 - 1)..MaxNode

\* Referral calls, recorded, interleaved with flow centrality queries.
NextFlow ==
  \/ \E referrerId \in Ids, candidateId \in Ids :
       addReferralRecorded(referrerId, candidateId)
  \/ \E topK \in TopKs : CalculateFlowCentrality(topK)

SpecFlow == Init /\ [][NextFlow]_vars

\* A call that has been made and has not returned yet.
Pending == [kind |-> "pending"]

\* The probabilities passed, in thousandths: below 0, 0, inside (0, 1), 1, above 1.
Probabilities == {0 - 1, 0, 1, 20, 100, 500, 1000, 1001}

\* The day counts passed to simulate: below 0, 0, small, the largest that
\* simulate accepts, and the next one.
DayCounts == {0 - 1, 0, 1, 2, 3, 30, MaxSimulateDays, MaxSimulateDays + 1}

\* The targets passed to daysToTarget: not positive, scanned day by day
\* (below SmallTargetLimit), and searched by bisection.
Targets == {0 - 5, 0, 1, 101, 500, SmallTargetLimit - 1, SmallTargetLimit, 4000,
            200000, 300000}

\* The calls made on a new NetworkGrowthSimulation.
GrowthCalls ==
  {[op |-> "simulate", args |-> <<p, days>>, ret |-> Pending] :
     p \in Probabilities, days \in DayCounts}
  \cup {[op |-> "daysToTarget", args |-> <<p, targetTotal>>, ret |-> Pending] :
          p \in Probabilities, targetTotal \in Targets}

InitGrowth ==
  /\ users = <<>>
  /\ referrals = EmptyMap
  /\ referrers = EmptyMap
  /\ reachCache = EmptyMap
  /\ distanceCache = EmptyMap
  /\ handle = NoHandle
  /\ accepted = <<>>
  /\ last \in GrowthCalls
  /\ graph = EmptyMap
  /\ referredCandidates = EmptyMap
  /\ threads = [t \in Threads |-> Idle]
  /\ lock = "unused"

\* The call of simulate returns or throws.
Simulate ==
  /\ last.op = "simulate"
  /\ last.ret = Pending
  /\ last' = [last EXCEPT !.ret = simulate(last.args[1], last.args[2])]
  /\ UNCHANGED <<store, caches, handle, accepted, java>>

\* The call of daysToTarget returns or throws.
DaysToTarget ==
  /\ last.op = "daysToTarget"
  /\ last.ret = Pending
  /\ last' = [last EXCEPT !.ret = daysToTarget(last.args[1], last.args[2])]
  /\ UNCHANGED <<store, caches, handle, accepted, java>>

NextGrowth ==
  \/ Simulate
  \/ DaysToTarget

SpecGrowth == InitGrowth /\ [][NextGrowth]_vars

\* A step function from low to high, in thousandths, at from dollars.
Step(low, from, high) == [kind |-> "step", low |-> low, from |-> from, high |-> high]

\* The stairs of Math.min(bonus / per, cap / 1000), in thousandths.
Stairs(per, cap) == [kind |-> "stairs", per |-> per, cap |-> cap]

\* The adoption functions passed, all non-decreasing with values in [0, 1]:
\* one that does not depend on the bonus, steps at several bonuses (at and
\* between the bonuses findMaxSearchBonus tests, and out of its reach), and
\* the stairs of the test suite's function.
AdoptionFunctions ==
  {Step(500, 0, 500), Step(0, 10, 500), Step(0, 15, 500), Step(0, 25, 1000),
   Step(1, 25, 500), Step(1, 300, 100), Step(0, 200000, 1000), Stairs(500, 900)}

\* The day counts passed to minBonusForTarget; the longest run overflows at
\* probability 1.
BonusDays == {0, 1, 3, 30, 60, 1200}

\* The targets passed to minBonusForTarget.
BonusTargets == {0, 10, 200, 1000}

\* The calls made on a new BonusOptimization.
BonusCalls ==
  {[op |-> "minBonusForTarget", args |-> <<days, targetHires, f>>, ret |-> Pending] :
     days \in BonusDays, targetHires \in BonusTargets, f \in AdoptionFunctions}

InitBonus ==
  /\ users = <<>>
  /\ referrals = EmptyMap
  /\ referrers = EmptyMap
  /\ reachCache = EmptyMap
  /\ distanceCache = EmptyMap
  /\ handle = NoHandle
  /\ accepted = <<>>
  /\ last \in BonusCalls
  /\ graph = EmptyMap
  /\ referredCandidates = EmptyMap
  /\ threads = [t \in Threads |-> Idle]
  /\ lock = "unused"

\* The call of minBonusForTarget returns or throws.
MinBonusForTarget ==
  /\ last.op = "minBonusForTarget"
  /\ last.ret = Pending
  /\ last' = [last EXCEPT !.ret = minBonusForTarget(last.args[1], last.args[2], last.args[3])]
  /\ UNCHANGED <<store, caches, handle, accepted, java>>

NextBonus == MinBonusForTarget

SpecBonus == InitBonus /\ [][NextBonus]_vars

\* The calls made on findMaxSearchBonus itself.
BoundCalls ==
  {[op |-> "findMaxSearchBonus", args |-> <<f, targetHires, days>>, ret |-> Pending] :
     f \in AdoptionFunctions, targetHires \in BonusTargets, days \in BonusDays}

InitBound ==
  /\ users = <<>>
  /\ referrals = EmptyMap
  /\ referrers = EmptyMap
  /\ reachCache = EmptyMap
  /\ distanceCache = EmptyMap
  /\ handle = NoHandle
  /\ accepted = <<>>
  /\ last \in BoundCalls
  /\ graph = EmptyMap
  /\ referredCandidates = EmptyMap
  /\ threads = [t \in Threads |-> Idle]
  /\ lock = "unused"

\* The call of findMaxSearchBonus returns, its bound in dollars, or throws.
FindMaxSearchBonus ==
  /\ last.op = "findMaxSearchBonus"
  /\ last.ret = Pending
  /\ last' = [last EXCEPT !.ret =
                LET bound == findMaxSearchBonus(last.args[1], last.args[2], last.args[3])
                IN IF bound.kind = "bonus" THEN Bonus(bound.dollars \div DollarUnits)
                   ELSE bound]
  /\ UNCHANGED <<store, caches, handle, accepted, java>>

NextBound == FindMaxSearchBonus

SpecBound == InitBound /\ [][NextBound]_vars

\* The values of eps passed to minBonusForTarget, in units: the default, 0
\* and a negative one.
Epsilons == {EpsUnits, 0, 0 - EpsUnits}

\* The day counts and targets of the calls that pass eps.
SearchDays == {0, 3, 60}

SearchTargets == {0, 10, 1000}

\* The calls of the three searches.
SearchCalls ==
  {[op |-> "minBonusForTarget", args |-> <<days, targetHires, f, eps>>, ret |-> Pending] :
     days \in SearchDays, targetHires \in SearchTargets, f \in AdoptionFunctions,
     eps \in Epsilons}
  \cup {c \in GrowthCalls : c.op = "daysToTarget"}
  \cup {c \in BoundCalls : c.args[3] \in SearchDays}

InitSearch ==
  /\ users = <<>>
  /\ referrals = EmptyMap
  /\ referrers = EmptyMap
  /\ reachCache = EmptyMap
  /\ distanceCache = EmptyMap
  /\ handle = NoHandle
  /\ accepted = <<>>
  /\ last \in SearchCalls
  /\ graph = EmptyMap
  /\ referredCandidates = EmptyMap
  /\ threads = [t \in Threads |-> Idle]
  /\ lock = "unused"

\* minBonusForTarget(days, targetHires, adoptionProb, eps) up to its while
\* loop: it returns null, or enters the loop with the bound found.
MinBonusEnter ==
  /\ last.op = "minBonusForTarget"
  /\ Len(last.args) = 4
  /\ last.ret = Pending
  /\ last' = [last EXCEPT !.ret =
                IF last.args[1] <= 0 \/ last.args[2] <= 0 THEN Null
                ELSE LET maxBonus == findMaxSearchBonus(last.args[3], last.args[2], last.args[1])
                     IN IF maxBonus.kind # "bonus" THEN maxBonus
                        ELSE Bisecting(0, maxBonus.dollars, Null)]
  /\ UNCHANGED <<store, caches, handle, accepted, java>>

\* One pass of the while loop, made while high - low > eps.
MinBonusPass ==
  /\ last.op = "minBonusForTarget"
  /\ last.ret.kind = "bisecting"
  /\ last.ret.high - last.ret.low > last.args[4]
  /\ last' = [last EXCEPT !.ret = bisectPass(last.args[3], last.args[2], last.args[1], last.ret)]
  /\ UNCHANGED <<store, caches, handle, accepted, java>>

\* The while loop has ended: null, or the best bonus rounded up.
MinBonusReturn ==
  /\ last.op = "minBonusForTarget"
  /\ last.ret.kind = "bisecting"
  /\ ~(last.ret.high - last.ret.low > last.args[4])
  /\ last' = [last EXCEPT !.ret =
                IF last.ret.bestBonus.kind # "bonus" THEN Null
                ELSE Bonus(roundUpToIncrement(last.ret.bestBonus.dollars))]
  /\ UNCHANGED <<store, caches, handle, accepted, java>>

NextSearch ==
  \/ DaysToTarget
  \/ FindMaxSearchBonus
  \/ MinBonusEnter
  \/ MinBonusPass
  \/ MinBonusReturn

SpecSearch == InitSearch /\ [][NextSearch]_vars

\* Threads calling the Java network with no lock around their calls.
NextJava ==
  \/ \E t \in Threads, referrer \in JavaIds, candidate \in JavaIds :
       JavaCallAddReferral(t, referrer, candidate)
  \/ \E t \in Threads : JavaChecks(t)
  \/ \E t \in Threads : JavaGraphAdd(t)
  \/ \E t \in Threads : JavaCandidatePut(t)
  \/ \E t \in Threads, user \in JavaIds : JavaGetDirectReferrals(t, user)

SpecJava == Init /\ [][NextJava]_vars

\* The same threads in a deployment that may, or may not, hold a mutex for
\* the whole of each addReferral call.
InitCritical ==
  /\ users = <<>>
  /\ referrals = EmptyMap
  /\ referrers = EmptyMap
  /\ reachCache = EmptyMap
  /\ distanceCache = EmptyMap
  /\ handle = NoHandle
  /\ accepted = <<>>
  /\ last = NoCall
  /\ graph = EmptyMap
  /\ referredCandidates = EmptyMap
  /\ threads = [t \in Threads |-> Idle]
  /\ lock \in {"unused", "free"}

SpecCritical == InitCritical /\ [][NextJava]_vars

\* One caller giving every referral to both engines.
NextEdge == \E referrer \in Nodes, candidate \in Nodes : AddEdgeBoth(referrer, candidate)

SpecEdge == Init /\ [][NextEdge]_vars

\* addUser calls on the JavaScript engine between the referrals given to both
\* engines.
NextStore ==
  \/ \E userId \in Ids : addUser(userId)
  \/ \E referrer \in Nodes, candidate \in Nodes : AddEdgeBoth(referrer, candidate)

SpecStore == Init /\ [][NextStore]_vars

----------------------------------------------------------------------------
(* The graph as the claims see it *)

\* The candidates the adjacency map rs records for u.
Kids(rs, u) == IF Has(rs, u) THEN rs[u] ELSE {}

Edges(rs) == {e \in Nodes \X Nodes : e[2] \in Kids(rs, e[1])}

RECURSIVE Closure(_, _)
Closure(rs, S) ==
  LET T == S \cup UNION {Kids(rs, x) : x \in S}
  IN IF T = S THEN S ELSE Closure(rs, T)

\* The nodes reachable from u along one or more edges of rs.
Descendants(rs, u) == Closure(rs, Kids(rs, u))

NoSelfLoop(rs) == \A u \in Nodes : u \notin Kids(rs, u)

AtMostOneReferrer(rs) ==
  \A c \in Nodes : Cardinality({r \in Nodes : c \in Kids(rs, r)}) <= 1

Acyclic(rs) == \A u \in Nodes : u \notin Descendants(rs, u)

Rejections == {"SelfReferral", "DuplicateReferrer", "CycleDetected"}

\* The first constraint of the contract that the call (r, c) fails, or "ok".
FirstFailure(r, c) ==
  IF r = c THEN "SelfReferral"
  ELSE IF \E p \in Nodes : c \in Kids(referrals, p) THEN "DuplicateReferrer"
  ELSE IF r \in Descendants(referrals, c) THEN "CycleDetected"
  ELSE "ok"

----------------------------------------------------------------------------
\* C1: after any sequence of addReferral calls, accepted or rejected, the
\* adjacency map has no self-loop, gives every node at most one referrer and
\* contains no directed cycle.
C1_GraphInvariants ==
  /\ NoSelfLoop(referrals)
  /\ AtMostOneReferrer(referrals)
  /\ Acyclic(referrals)

\* A call that would close the cycle 1 -> 2 -> 3 -> 1 has just been rejected.
C1_Witness ==
  /\ last.op = "addReferral"
  /\ last.ret = "CycleDetected"
  /\ last.args = <<3, 1>>
  /\ {<<1, 2>>, <<2, 3>>} \subseteq Edges(referrals)

\* C2 (as claimed): a rejected addReferral call leaves the user set, the
\* adjacency map and the reverse map exactly as they were.
C2_RejectedLeavesStoreUnchanged ==
  [][\A r \in Nodes, c \in Nodes :
       (last'.args = <<r, c>> /\ addReferral(r, c) /\ last'.ret \in Rejections)
         => UNCHANGED store]_vars

\* C3: a call between valid identifiers reports the first failing constraint
\* in the order SelfReferral, DuplicateReferrer, CycleDetected (so a candidate
\* that has a referrer and also reaches the referrer is a DuplicateReferrer),
\* and repeating an accepted call at once is rejected as DuplicateReferrer
\* and changes nothing in the store.
C3_FirstFailureReported ==
  [][\A r \in Nodes, c \in Nodes :
       (last'.args = <<r, c>> /\ addReferral(r, c)) =>
         /\ last'.ret = FirstFailure(r, c)
         /\ (last = [op |-> "addReferral", args |-> <<r, c>>, ret |-> "ok"] =>
               (last'.ret = "DuplicateReferrer" /\ UNCHANGED store))]_vars

\* With the edges 2 -> 3 and 3 -> 1 in place, the call (1, 3) fails two
\* constraints (3 has a referrer, and 3 reaches 1) and was rejected as
\* DuplicateReferrer.
C3_Witness ==
  /\ last = [op |-> "addReferral", args |-> <<1, 3>>, ret |-> "DuplicateReferrer"]
  /\ 1 \in Descendants(referrals, 3)

\* The chain 1 -> 2 -> 3 -> 4 and no other edge.
IsChain == Edges(referrals) = {<<1, 2>>, <<2, 3>>, <<3, 4>>}

\* C7: calculateReach(user) is the number of distinct nodes reachable from
\* user along directed edges, user itself not counted, and 0 for a user the
\* store has never seen; on the chain 1 -> 2 -> 3 -> 4 the reach of 1 is 3.
C7_ReachCountsDescendants ==
  last.op = "calculateReach" =>
    LET u == last.args[1]
    IN /\ last.ret = Cardinality(Descendants(referrals, u) \ {u})
       /\ (u \notin Range(users) => last.ret = 0)
       /\ (IsChain /\ u = 1 => last.ret = 3)

\* calculateReach(1) has returned 3 on the chain.
C7_Witness ==
  /\ IsChain
  /\ last = [op |-> "calculateReach", args |-> <<1>>, ret |-> 3]

\* The users with reach > 0.
Referrers == {u \in Nodes : Descendants(referrals, u) # {}}

RECURSIVE RankByReachThenId(_)
\* The members of S by reach descending, equal reach by ascending identifier.
RankByReachThenId(S) ==
  IF S = {} THEN <<>>
  ELSE LET best == CHOOSE x \in S : \A y \in S :
                     \/ Cardinality(Descendants(referrals, x)) > Cardinality(Descendants(referrals, y))
                     \/ /\ Cardinality(Descendants(referrals, x)) = Cardinality(Descendants(referrals, y))
                        /\ x <= y
       IN <<best>> \o RankByReachThenId(S \ {best})

\* The first k members of ranking, all of them when there are fewer.
FirstK(ranking, k) ==
  IF k <= 0 THEN <<>>
  ELSE SubSeq(ranking, 1, IF k < Len(ranking) THEN k ELSE Len(ranking))

UserIds(ranking) == [i \in 1..Len(ranking) |-> ranking[i].userId]

\* C8 (as claimed): for k >= 1 getTopReferrersByReach(k) returns the first k
\* users with reach > 0 by reach descending, users of equal reach in ascending
\* identifier order whatever the insertion order; on the chain, k = 2 gives <<1, 2>>.
C8_TopKTiesByIdentifier ==
  (last.op = "getTopReferrersByReach" /\ last.args[1] >= 1) =>
    /\ UserIds(last.ret) = FirstK(RankByReachThenId(Referrers), last.args[1])
    /\ \A i \in 1..Len(last.ret) :
         last.ret[i].reach = Cardinality(Descendants(referrals, last.ret[i].userId))

\* C9 (as claimed): getTopReferrersByReach(k) is empty for every k <= 0 and
\* holds every user with reach > 0 when k exceeds their number.
C9_NonPositiveKIsEmpty ==
  last.op = "getTopReferrersByReach" =>
    /\ (last.args[1] <= 0 => last.ret = <<>>)
    /\ (last.args[1] > Cardinality(Referrers) =>
          (Range(UserIds(last.ret)) = Referrers /\ Len(last.ret) = Cardinality(Referrers)))

\* C4 (as claimed): no write the caller makes to a Set returned by
\* getDirectReferrals changes the store's adjacency map, reverse map or user
\* set, whether the user has referrals, has none or is unknown.
C4_ReturnedSetCannotMutateStore ==
  [][last'.op \in {"returned.add", "returned.delete"} => UNCHANGED store]_vars

\* C5 (as claimed): whatever accepted referrals and reach queries came before,
\* getReachSet(u) returns the descendants u has in the graph at the moment of
\* the call, and calculateUniqueReachExpansion reports for each node it
\* selects the reach that node has at the moment of the call.
C5_ReachSetIsCurrent ==
  /\ last.op = "getReachSet" => last.ret = Descendants(referrals, last.args[1])
  /\ last.op = "calculateUniqueReachExpansion" =>
       \A i \in 1..Len(last.ret.selectedReferrers) :
         last.ret.selectedReferrers[i].totalReach =
           Cardinality(Descendants(referrals, last.ret.selectedReferrers[i].userId))

RECURSIVE SumContributions(_)
SumContributions(selected) ==
  IF selected = <<>> THEN 0
  ELSE Head(selected).uniqueContribution + SumContributions(Tail(selected))

\* The graph is two disjoint stars with the hubs h1 and h2.
TwoStars(h1, h2) ==
  /\ h1 # h2
  /\ Kids(referrals, h1) # {}
  /\ Kids(referrals, h2) # {}
  /\ ({h1} \cup Kids(referrals, h1)) \cap ({h2} \cup Kids(referrals, h2)) = {}
  /\ Edges(referrals) = ({h1} \X Kids(referrals, h1)) \cup ({h2} \X Kids(referrals, h2))

\* What the claim says of a result of calculateUniqueReachExpansion(budget).
CoverageAccounts(result, budget) ==
  LET sel == result.selectedReferrers
  IN /\ result.totalUniqueCoverage = SumContributions(sel)
     /\ result.totalUniqueCoverage =
          Cardinality(UNION {Descendants(referrals, sel[i].userId) : i \in 1..Len(sel)})
     /\ \A i \in 1..Len(sel), j \in 1..Len(sel) :
          i # j => sel[i].newUsersCovered \cap sel[j].newUsersCovered = {}
     /\ \A h1 \in Nodes, h2 \in Nodes :
          (TwoStars(h1, h2) /\ budget >= 2) =>
            /\ {sel[i].userId : i \in 1..Len(sel)} = {h1, h2}
            /\ \A i \in 1..Len(sel) :
                 sel[i].uniqueContribution = Cardinality(Kids(referrals, sel[i].userId))

\* C10 (as claimed): totalUniqueCoverage is the sum of the recorded unique
\* contributions and the size of the union of the selected nodes' reach sets,
\* the newly-covered members of different selections are disjoint, and on two
\* disjoint stars a budget of 2 or more selects both hubs with their full sizes.
C10_CoverageAccounts ==
  last.op = "calculateUniqueReachExpansion" => CoverageAccounts(last.ret, last.args[1])

RECURSIVE ReplayUsers(_, _)
\* this.users of a new engine after the referrals edges, all accepted.
ReplayUsers(edges, us) ==
  IF edges = <<>> THEN us
  ELSE ReplayUsers(Tail(edges), SetAdd(SetAdd(us, Head(edges)[1]), Head(edges)[2]))

RECURSIVE ReplayReferrals(_, _)
\* this.referrals of a new engine after the referrals edges, all accepted.
ReplayReferrals(edges, rs) ==
  IF edges = <<>> THEN rs
  ELSE LET r == Head(edges)[1]
           c == Head(edges)[2]
           withUsers == ReferralsAfterAddUser(ReferralsAfterAddUser(rs, r), c)
       IN ReplayReferrals(Tail(edges), Put(withUsers, r, withUsers[r] \cup {c}))

\* C6 (as claimed): a calculateFlowCentrality call made after an accepted
\* referral returns the ranking that a new engine returns after receiving the
\* same accepted referrals in the same order.
C6_FlowCentralityMatchesNewEngine ==
  (last.op = "calculateFlowCentrality" /\ Len(accepted) > 0) =>
    last.ret = flowCentrality(ReplayUsers(accepted, <<>>),
                 allPairsDistances(ReplayUsers(accepted, <<>>), ReplayReferrals(accepted, EmptyMap)),
                 last.args[1])

\* The identifiers that calculateFlowCentrality gave a score > 0.
ScoredIds(ranking) == {ranking[i].userId : i \in 1..Len(ranking)}

\* C11 (as claimed): on the chain 1 -> 2 -> 3 -> 4, whatever the order in which
\* its three referrals were accepted, calculateFlowCentrality with room for
\* every user scores exactly 2 and 3; and on any graph no user without a
\* referrer or without a direct referral is scored.  Only calls that work on
\* the distances of the current graph are looked at.
C11_ChainBrokersScored ==
  (/\ last.op = "calculateFlowCentrality"
   /\ last.args[1] = MaxNode
   /\ distanceCache = allPairsDistances(users, referrals)) =>
    /\ \A u \in ScoredIds(last.ret) : Has(referrers, u) /\ Kids(referrals, u) # {}
    /\ (IsChain => ScoredIds(last.ret) = {2, 3})

\* The sequence of n zeros.
Zeros(n) == [i \in 1..n |-> Zero]

\* C12 (as claimed): simulate(0, N) returns exactly N zeros for every N >= 0.
C12_ZeroProbabilityGivesZeros ==
  (/\ last.op = "simulate"
   /\ last.ret # Pending
   /\ last.args[1] = 0
   /\ last.args[2] >= 0) =>
    last.ret = Array(Zeros(last.args[2]))

\* C13 (as claimed): simulate throws when the probability is below 0 or above
\* 1 or the day count is below 0, and for every probability in [0, 1] and
\* every day count >= 0 it returns an array of that many totals.
C13_SimulateBoundsChecked ==
  (last.op = "simulate" /\ last.ret # Pending) =>
    IF last.args[1] < 0 \/ last.args[1] > 1000 \/ last.args[2] < 0
    THEN last.ret.kind = "error"
    ELSE last.ret.kind = "array" /\ Len(last.ret.results) = last.args[2]

\* C12 (amended): simulate(0, N) returns exactly N zeros for every N from 0
\* to the 10000 days simulate accepts, and throws the days Error above that.
C12_ZeroProbabilityGivesZerosUpToLimit ==
  (/\ last.op = "simulate"
   /\ last.ret # Pending
   /\ last.args[1] = 0
   /\ last.args[2] >= 0) =>
    IF last.args[2] <= MaxSimulateDays
    THEN last.ret = Array(Zeros(last.args[2]))
    ELSE last.ret = DaysError

\* simulate(0, 30) has returned its 30 zeros.
C12_Witness ==
  /\ last.op = "simulate"
  /\ last.args = <<0, 30>>
  /\ last.ret = Array(Zeros(30))

\* C13 (amended): simulate throws when the probability is below 0 or above 1
\* or the day count is below 0 or above 10000, and for every probability in
\* [0, 1] and every day count from 0 to 10000 it returns an array of that
\* many totals.
C13_SimulateBoundsCheckedUpToLimit ==
  (last.op = "simulate" /\ last.ret # Pending) =>
    IF \/ last.args[1] < 0 \/ last.args[1] > 1000
       \/ last.args[2] < 0 \/ last.args[2] > MaxSimulateDays
    THEN last.ret.kind = "error"
    ELSE last.ret.kind = "array" /\ Len(last.ret.results) = last.args[2]

\* simulate has thrown for a probability above 1, and has returned 10000
\* totals for probability 1.
C13_Witness ==
  \/ /\ last.op = "simulate"
     /\ last.args = <<1001, 3>>
     /\ last.ret = ProbabilityError
  \/ /\ last.op = "simulate"
     /\ last.args = <<1000, MaxSimulateDays>>
     /\ last.ret.kind = "array"

\* The cumulative total of simulate(p, days) at its last day meets targetTotal.
MeetsTarget(p, days, targetTotal) ==
  LET sim == simulate(p, days)
  IN /\ sim.kind = "array"
     /\ Len(sim.results) = days
     /\ days > 0
     /\ AtLeast(sim.results[days], FromInt(targetTotal))

\* C14 (as claimed): for a probability in (0, 1] and a target > 0, a day count
\* d returned by daysToTarget is the first day at which the cumulative total
\* of simulate reaches the target: reached at day d, not reached at day d - 1.
C14_DaysToTargetIsFirstDay ==
  (/\ last.op = "daysToTarget"
   /\ last.ret # Pending
   /\ last.args[1] > 0 /\ last.args[1] <= 1000
   /\ last.args[2] > 0
   /\ last.ret.kind = "days") =>
    /\ MeetsTarget(last.args[1], last.ret.days, last.args[2])
    /\ (last.ret.days > 1 =>
          ~MeetsTarget(last.args[1], last.ret.days - 1, last.args[2]))

\* C15 (as claimed): daysToTarget returns 0 whenever the target is <= 0, for
\* every probability in [0, 1], 0 included.
C15_NoTargetTakesNoDays ==
  (/\ last.op = "daysToTarget"
   /\ last.ret # Pending
   /\ last.args[1] >= 0 /\ last.args[1] <= 1000
   /\ last.args[2] <= 0) =>
    last.ret = Days(0)

\* C16 (as claimed): for a probability in [0, 1] and a target > 0,
\* daysToTarget returns a day count or Infinity and never throws, and with
\* probability 0 it returns Infinity.
C16_DaysToTargetNeverThrows ==
  (/\ last.op = "daysToTarget"
   /\ last.ret # Pending
   /\ last.args[1] >= 0 /\ last.args[1] <= 1000
   /\ last.args[2] > 0) =>
    /\ last.ret.kind \in {"days", "inf"}
    /\ (last.args[1] = 0 => last.ret = Infinity)

\* simulate(adoptionProb(bonus), days) ends at targetHires or above, for the
\* bonus in dollars.
BonusMeetsTarget(f, bonus, days, targetHires) ==
  MeetsTarget(adoptionProb(f, bonus * DollarUnits), days, targetHires)

\* C17: a bonus that minBonusForTarget returns, for a non-decreasing
\* adoptionProb with values in [0, 1], is a multiple of 10, and the last
\* cumulative total of simulate(adoptionProb(bonus), days) is at least
\* targetHires.
C17_ReturnedBonusMeetsTarget ==
  (/\ last.op = "minBonusForTarget"
   /\ last.ret # Pending
   /\ last.ret.kind = "bonus") =>
    /\ last.ret.dollars % BonusIncrement = 0
    /\ BonusMeetsTarget(last.args[3], last.ret.dollars, last.args[1], last.args[2])

\* minBonusForTarget has returned $20 for a step at $15, and $30 in a run of
\* 1200 days that overflows at the probability of the bound found.
C17_Witness ==
  /\ last.op = "minBonusForTarget"
  /\ \/ last.args = <<1, 10, Step(0, 15, 500)>> /\ last.ret = Bonus(20)
     \/ last.args = <<1200, 1000, Step(1, 25, 500)>> /\ last.ret = Bonus(30)

\* C18 (as claimed): the bonus 10 below a bonus that minBonusForTarget
\* returns does not meet the target.
C18_ReturnedBonusIsTight ==
  (/\ last.op = "minBonusForTarget"
   /\ last.ret # Pending
   /\ last.ret.kind = "bonus") =>
    ~BonusMeetsTarget(last.args[3], last.ret.dollars - BonusIncrement,
                      last.args[1], last.args[2])

\* The adjacency map g and the candidate -> referrer map rc record the same
\* referrals.
MapsAgree(g, rc) ==
  /\ \A c \in DOMAIN rc : c \in Kids(g, rc[c])
  /\ \A r \in DOMAIN g : \A c \in g[r] : Has(rc, c) /\ rc[c] = r

\* C19 (as claimed): whatever the interleaving of the threads' addReferral
\* and getDirectReferrals calls, once no thread is inside a call the Java
\* graph has no self-referral, at most one referrer per candidate and no
\* cycle, and its two maps agree.
C19_ThreadSafe ==
  (\A t \in Threads : threads[t].pc = "idle") =>
    /\ NoSelfLoop(graph)
    /\ AtMostOneReferrer(graph)
    /\ Acyclic(graph)
    /\ MapsAgree(graph, referredCandidates)

\* C20: a referral (r, c) with r # c is accepted, by the JavaScript engine
\* and by the Java network alike, exactly when c has no recorded referrer and
\* r is not reachable from c; an accepted call adds the edge r -> c, makes r
\* and c nodes, records r as the referrer of c, and changes nothing else.
C20_AcceptedIffNoReferrerNoPath ==
  [][\A r, c \in Nodes :
       (last'.args = <<r, c>> /\ r # c /\ AddEdgeBoth(r, c)) =>
         LET free == /\ \A x \in Nodes : c \notin Kids(referrals, x)
                     /\ r \notin Descendants(referrals, c)
         IN /\ (last'.ret = "ok") = free
            /\ (threads'[1].ret = "true") = free
            /\ Edges(graph) = Edges(referrals)
            /\ IF free
               THEN /\ Edges(referrals') = Edges(referrals) \cup {<<r, c>>}
                    /\ Edges(graph') = Edges(graph) \cup {<<r, c>>}
                    /\ Range(users') = Range(users) \cup {r, c}
                    /\ referrers' = Put(referrers, c, r)
                    /\ referredCandidates' = Put(referredCandidates, c, r)
               ELSE /\ Edges(referrals') = Edges(referrals)
                    /\ graph' = graph
                    /\ referredCandidates' = referredCandidates]_vars

\* The referral (4, 1) has been rejected by both on the chain 1 -> 2 -> 3 -> 4,
\* whose last edge both had accepted.
C20_Witness ==
  /\ IsChain
  /\ Edges(graph) = Edges(referrals)
  /\ last = [op |-> "addReferral", args |-> <<4, 1>>, ret |-> "CycleDetected"]
  /\ threads[1].ret = "false"
  /\ Kids(referrals, 4) = {}

\* C21: a directed cycle in the Java graph is reachable only in a deployment
\* that puts no mutex around addReferral; when every addReferral call holds
\* the mutex from its checks to its insertions the graph is acyclic in every
\* reachable state.
C21_CycleOnlyWithoutCriticalSection ==
  ~Acyclic(graph) => lock = "unused"

\* Without the mutex, two calls addReferral(1, 2) and addReferral(2, 1) have
\* both passed their checks, both returned true, and the graph holds
\* 1 -> 2 -> 1.
C21_Witness ==
  /\ lock = "unused"
  /\ \A t \in Threads : threads[t].pc = "idle" /\ threads[t].ret = "true"
  /\ {threads[1].referrer, threads[2].referrer} = {1, 2}
  /\ threads[1].candidate = threads[2].referrer
  /\ threads[2].candidate = threads[1].referrer
  /\ Edges(graph) = {<<1, 2>>, <<2, 1>>}

\* The reach sets memoized in reachCache are those of the graph as it is now.
ReachCacheIsCurrent ==
  \A u \in DOMAIN reachCache : reachCache[u] = Descendants(referrals, u)

\* The nodes selected before position i, and what their reach sets cover.
SelectedBefore(sel, i) == {sel[j].userId : j \in 1..(i - 1)}

CoveredBefore(sel, i) == UNION {Descendants(referrals, sel[j].userId) : j \in 1..(i - 1)}

\* The number of nodes the reach set of u adds to those covered before position i.
Gain(sel, i, u) == Cardinality(Descendants(referrals, u) \ CoveredBefore(sel, i))

\* The nodes with nonzero reach not selected before position i.
Selectable(sel, i) ==
  {u \in Nodes : Descendants(referrals, u) # {}} \ SelectedBefore(sel, i)

\* C22 (as claimed): with the memoized reach sets current, every selection of
\* calculateUniqueReachExpansion is a selectable node of the largest gain,
\* and among the nodes tied for that gain the one with the smallest identifier.
C22_GreedyTiesBySmallestIdentifier ==
  (last.op = "calculateUniqueReachExpansion" /\ ReachCacheIsCurrent) =>
    LET sel == last.ret.selectedReferrers
    IN \A i \in 1..Len(sel) :
         /\ sel[i].userId \in Selectable(sel, i)
         /\ \A u \in Selectable(sel, i) :
              \/ Gain(sel, i, u) < Gain(sel, i, sel[i].userId)
              \/ (Gain(sel, i, u) = Gain(sel, i, sel[i].userId) /\ sel[i].userId <= u)

\* C23: calculateUniqueReachExpansion(maxSelections) returns at most
\* maxSelections selections, all of different nodes, each with a recorded
\* unique contribution of 1 or more that counts nodes no earlier selection
\* covered; with maxSelections <= 0 or a graph without edges it returns no
\* selection, coverage 0 and efficiency 0.
C23_SelectionsBoundedAndContributing ==
  last.op = "calculateUniqueReachExpansion" =>
    LET sel == last.ret.selectedReferrers
        budget == last.args[1]
    IN /\ Len(sel) <= IF budget > 0 THEN budget ELSE 0
       /\ \A i \in 1..Len(sel), j \in 1..Len(sel) : i # j => sel[i].userId # sel[j].userId
       /\ \A i \in 1..Len(sel) :
            /\ sel[i].uniqueContribution >= 1
            /\ sel[i].uniqueContribution = Cardinality(sel[i].newUsersCovered)
            /\ \A j \in 1..(i - 1) : sel[i].newUsersCovered \cap sel[j].newUsersCovered = {}
       /\ (budget <= 0 \/ Edges(referrals) = {}) =>
            /\ sel = <<>>
            /\ last.ret.totalUniqueCoverage = 0
            /\ last.ret.efficiency = <<0, 1>>

\* On the chain 1 -> 2 -> 3 -> 4 a budget of 4 gave one selection: after node
\* 1 has covered the rest, no node adds anything and the budget is left unused.
C23_Witness ==
  /\ last.op = "calculateUniqueReachExpansion"
  /\ last.args = <<MaxNode>>
  /\ IsChain
  /\ Len(last.ret.selectedReferrers) = 1
  /\ last.ret.selectedReferrers[1].userId = 1
  /\ last.ret.selectedReferrers[1].uniqueContribution = 3

\* The number of unordered pairs {s, t}, distinct from v and from each other,
\* joined by a directed path through v.  Every node has at most one referrer,
\* so the path from s to t is unique and v lies on a shortest path exactly
\* when it lies on that path.
PairsThrough(v) ==
  Cardinality({p \in Nodes \X Nodes :
    /\ v \in Descendants(referrals, p[1])
    /\ p[2] \in Descendants(referrals, v)})

\* C24 (as claimed): with the distance matrix current and topK no smaller
\* than the number of nodes, calculateFlowCentrality lists exactly the nodes
\* that lie between the two ends of some connected pair, each with the number
\* of such pairs as its score, by score descending, whatever the order in
\* which the referrals were made.
C24_FlowCentralityCountsPairs ==
  (/\ last.op = "calculateFlowCentrality"
   /\ last.args[1] = MaxNode
   /\ distanceCache = allPairsDistances(users, referrals)) =>
     /\ ScoredIds(last.ret) = {v \in Nodes : PairsThrough(v) > 0}
     /\ \A i \in 1..Len(last.ret) : last.ret[i].centralityScore = PairsThrough(last.ret[i].userId)
     /\ \A i \in 1..(Len(last.ret) - 1) :
          last.ret[i].centralityScore >= last.ret[i + 1].centralityScore

RECURSIVE WithinHops(_, _)
\* The nodes that some path of exactly d referrals leads to from root.
WithinHops(root, d) ==
  IF d = 0 THEN {root}
  ELSE UNION {Kids(referrals, u) : u \in WithinHops(root, d - 1)}

\* The nodes whose hop distance from root is d.
AtHopDistance(root, d) ==
  WithinHops(root, d) \ UNION {WithinHops(root, e) : e \in 0..(d - 1)}

\* C25: getUsersAtDepth(root, depth) returns the nodes at hop distance depth
\* from root, and the empty set for depth < 1, for a root that is not a user
\* and for a depth beyond the deepest descendant; over the depths 1, 2, ...
\* the sets are pairwise disjoint and their union is the set of descendants
\* of root.
C25_UsersAtDepthIsHopDistance ==
  last.op = "getUsersAtDepth" =>
    LET root == last.args[1]
        depth == last.args[2]
        known == root \in Range(users)
        atDepth(d) == getUsersAtDepth(users, referrals, root, d)
    IN /\ last.ret = IF known /\ depth >= 1 THEN AtHopDistance(root, depth) ELSE {}
       /\ (known /\ depth >= 1 /\ \A e \in 1..depth : AtHopDistance(root, e) # {}) \/ last.ret = {}
       /\ \A d \in 1..MaxNode, e \in 1..MaxNode : d # e => atDepth(d) \cap atDepth(e) = {}
       /\ UNION {atDepth(d) : d \in 1..MaxNode} = Descendants(referrals, root)

\* On a root with the referrals 2 and 3, of which 2 referred 4, depth 2 gave
\* {4}.
C25_Witness ==
  /\ last = [op |-> "getUsersAtDepth", args |-> <<1, 2>>, ret |-> {4}]
  /\ Edges(referrals) = {<<1, 2>>, <<1, 3>>, <<2, 4>>}

\* The active-referrer count simulate(p, days) holds after its last day.
ActiveAfter(p, days) ==
  simulateLoop(Thousandths(p), days,
               [day |-> 1, activeReferrers |-> FromInt(INITIAL_REFERRERS),
                cumulativeReferrals |-> Zero, results |-> <<>>],
               days).activeReferrers

\* C26 (as claimed): for every probability in [0, 1] and every days >= 0,
\* simulate returns exactly days totals, each >= 0 and >= the total of the
\* day before, and the active-referrer count after the last day is >= 0.
C26_TotalsNonDecreasing ==
  (/\ last.op = "simulate"
   /\ last.ret # Pending
   /\ last.args[1] >= 0 /\ last.args[1] <= 1000
   /\ last.args[2] >= 0) =>
    /\ last.ret.kind = "array"
    /\ Len(last.ret.results) = last.args[2]
    /\ \A i \in 1..Len(last.ret.results) :
         /\ AtLeast(last.ret.results[i], Zero)
         /\ i > 1 => AtLeast(last.ret.results[i], last.ret.results[i - 1])
    /\ AtLeast(ActiveAfter(last.args[1], last.args[2]), Zero)

RECURSIVE TrialBonus(_)
\* The bonuses 10, 20, 40, ..., by trial number from 0.
TrialBonus(k) == IF k = 0 THEN FirstTestBonus ELSE 2 * TrialBonus(k - 1)

\* The trials within the pass limit whose bonus is within the ceiling.
Trials == {k \in 0..(MaxIterations - 1) : TrialBonus(k) <= MaxTestBonus}

\* The hires at the end of the run simulate(adoptionProb(bonus), days): its
\* last cumulative total, none in a run of no days.
HiresAt(f, bonus, days) ==
  LET sim == simulate(adoptionProb(f, bonus * DollarUnits), days)
  IN IF Len(sim.results) = 0 THEN Zero ELSE sim.results[Len(sim.results)]

TrialMeets(f, targetHires, days, k) ==
  AtLeast(HiresAt(f, TrialBonus(k), days), FromInt(targetHires))

TrialSaturated(f, k) == adoptionProb(f, TrialBonus(k) * DollarUnits) >= SaturatedProbability

\* C27: findMaxSearchBonus tries the bonuses 10, 20, 40, ... in turn.  A
\* bound it returns is one of them, is at most 100000, meets the target in
\* its run, and follows only trials that missed the target unsaturated.  It
\* returns null exactly when the first trial that meets the target or is
\* saturated is a saturated one that misses, or when no trial up to the
\* ceiling is either.
C27_UpperBoundMeetsTarget ==
  (last.op = "findMaxSearchBonus" /\ last.ret # Pending) =>
    LET f == last.args[1]
        targetHires == last.args[2]
        days == last.args[3]
        stops == {k \in Trials :
                    TrialMeets(f, targetHires, days, k) \/ TrialSaturated(f, k)}
    IN /\ last.ret.kind \in {"bonus", "null"}
       /\ last.ret.kind = "bonus" =>
            /\ last.ret.dollars <= MaxTestBonus
            /\ \E k \in stops :
                 /\ last.ret.dollars = TrialBonus(k)
                 /\ TrialMeets(f, targetHires, days, k)
                 /\ \A j \in 0..(k - 1) : j \notin stops
       /\ last.ret.kind = "null" =>
            \/ stops = {}
            \/ \E k \in stops :
                 /\ ~TrialMeets(f, targetHires, days, k)
                 /\ \A j \in 0..(k - 1) : j \notin stops

\* findMaxSearchBonus has returned 320 for a step at 300: the trials 10 to
\* 160 missed the target of 10 hires in 3 days.
C27_Witness ==
  /\ last.op = "findMaxSearchBonus"
  /\ last.args = <<Step(1, 300, 100), 10, 3>>
  /\ last.ret = Bonus(320)

\* The width of the interval the while loop of minBonusForTarget holds.
Width(b) == b.high - b.low

\* C28 (as claimed): every call of daysToTarget, findMaxSearchBonus and
\* minBonusForTarget, eps <= 0 included, comes to an end.  The first two
\* return in the one step they take; the while loop of minBonusForTarget
\* comes to an end exactly if each pass it makes leaves it with a narrower
\* interval, or throws: a pass that leaves low and high as they were is
\* repeated for ever.
C28_SearchesTerminate ==
  (/\ last.op = "minBonusForTarget"
   /\ last.ret.kind = "bisecting"
   /\ Width(last.ret) > last.args[4]) =>
    LET next == bisectPass(last.args[3], last.args[2], last.args[1], last.ret)
    IN next.kind = "bisecting" => Width(next) < Width(last.ret)

\* C29: after any addUser and addReferral calls, in the JavaScript engine a
\* candidate c is in the Set of r exactly when the reverse map records r as
\* the referrer of c, both ends of every edge are users with an entry in the
\* adjacency map, and there are as many edges as entries of the reverse map;
\* the two maps of the Java network (which keeps no user set) record the
\* same referrals, one entry of the reverse map for each edge.
C29_MapsMirrorEachOther ==
  /\ \A r \in Nodes, c \in Nodes :
       (c \in Kids(referrals, r)) = (Has(referrers, c) /\ referrers[c] = r)
  /\ DOMAIN referrals \subseteq Nodes
  /\ DOMAIN referrers \subseteq Nodes
  /\ \A e \in Edges(referrals) :
       /\ {e[1], e[2]} \subseteq Range(users)
       /\ Has(referrals, e[1])
       /\ Has(referrals, e[2])
  /\ Cardinality(Edges(referrals)) = Cardinality(DOMAIN referrers)
  /\ MapsAgree(graph, referredCandidates)
  /\ Cardinality(Edges(graph)) = Cardinality(DOMAIN referredCandidates)

\* addUser has been called on a user that already has two referrals, after a
\* referral to a candidate with a referrer was rejected.
C29_Witness ==
  /\ last = [op |-> "addUser", args |-> <<1>>, ret |-> "ok"]
  /\ Edges(referrals) = {<<1, 2>>, <<1, 3>>}
  /\ Edges(graph) = {<<1, 2>>, <<1, 3>>}
  /\ referrers = Put(Put(EmptyMap, 2, 1), 3, 1)
  /\ threads[1].ret = "false"
  /\ 4 \in Range(users)

\* C30 (as claimed): for days > 0, targetHires > 0, the default eps and a
\* non-decreasing adoptionProb, whenever findMaxSearchBonus returns a bound,
\* minBonusForTarget returns a bonus and not null.
C30_InfeasibleOnlyWithoutBound ==
  (/\ last.op = "minBonusForTarget"
   /\ last.ret # Pending
   /\ last.args[1] > 0
   /\ last.args[2] > 0
   /\ findMaxSearchBonus(last.args[3], last.args[2], last.args[1]).kind = "bonus") =>
    last.ret.kind = "bonus"

====
